---- MODULE Spec2Model ----
(***************************************************************************)
(* The lessons/orders HTTP backend (Express + MongoDB driver).             *)
(*                                                                         *)
(* Three deployments of the program are in the repository:                 *)
(*   "server"  src/server.js, lines 1-210                                  *)
(*   "part"    src/unnamed/part_000                                        *)
(*   "index"   src/index.js                                                *)
(* (src/server.js, lines 211-303 repeat connectDB, GET /lessons, the error *)
(* responder and the SIGINT handler of "part" and add nothing to it.)      *)
(*                                                                         *)
(* A request handler runs synchronously up to its store call, suspends     *)
(* at the await, and resumes when the store call settles.  The store       *)
(* applies each single-document operation atomically.                      *)
(***************************************************************************)
EXTENDS Integers, Sequences, FiniteSets, TLC

\* Number of requests admitted in one run.
MaxReq == 2

Variants == {"server", "part", "index"}

(***************************************************************************)
(* JSON / BSON values.  Every value is a record with one tag field, so     *)
(* values of different types are comparable and never equal.               *)
(***************************************************************************)
Num(n) == [num |-> n]
Str(s) == [str |-> s]
Oid(h) == [oid |-> h]          \* ObjectId; h is its hex text, lower case
Hex(h) == [hex |-> h]          \* an ObjectId as JSON text
Arr(a) == [arr |-> a]
Obj(o) == [obj |-> o]          \* a nested document
Null == [null |-> TRUE]
NaN == [nan |-> TRUE]
Undefined == [undefined |-> TRUE]
Malformed == [malformed |-> TRUE]   \* a body express.json() cannot parse

\* obj.f in JavaScript: undefined when the property is absent.
Get(o, f) == IF f \in DOMAIN o THEN o[f] ELSE Undefined

(***************************************************************************)
(* parseInt(string) with no radix, on a path segment given as a sequence   *)
(* of one-character strings.                                               *)
(***************************************************************************)
DigitVal(c) ==
  CASE c = "0" -> 0 [] c = "1" -> 1 [] c = "2" -> 2 [] c = "3" -> 3
    [] c = "4" -> 4 [] c = "5" -> 5 [] c = "6" -> 6 [] c = "7" -> 7
    [] c = "8" -> 8 [] c = "9" -> 9
    [] c \in {"a", "A"} -> 10 [] c \in {"b", "B"} -> 11
    [] c \in {"c", "C"} -> 12 [] c \in {"d", "D"} -> 13
    [] c \in {"e", "E"} -> 14 [] c \in {"f", "F"} -> 15
    [] OTHER -> 36

RECURSIVE SkipWhite(_)
SkipWhite(s) ==
  IF s # <<>> /\ Head(s) = " " THEN SkipWhite(Tail(s)) ELSE s

RECURSIVE ParseDigits(_, _, _, _)
ParseDigits(s, radix, acc, seen) ==
  IF s = <<>> \/ DigitVal(Head(s)) >= radix
    THEN IF seen THEN Num(acc) ELSE NaN
    ELSE ParseDigits(Tail(s), radix, acc * radix + DigitVal(Head(s)), TRUE)

parseInt(s) ==
  LET t == SkipWhite(s)
      signed == t # <<>> /\ Head(t) \in {"-", "+"}
      neg == signed /\ Head(t) = "-"
      u == IF signed THEN Tail(t) ELSE t
      hex == Len(u) >= 2 /\ u[1] = "0" /\ u[2] \in {"x", "X"}
      v == IF hex THEN ParseDigits(Tail(Tail(u)), 16, 0, FALSE)
                  ELSE ParseDigits(u, 10, 0, FALSE)
  IN IF v = NaN THEN NaN ELSE IF neg THEN Num(0 - v.num) ELSE v

(***************************************************************************)
(* new ObjectId(string): the driver accepts a string of hex characters of  *)
(* the fixed length (24 in the driver; ObjectIdHexLen here) and throws on  *)
(* anything else.  The ObjectId is the bytes, so the letter case is lost.  *)
(***************************************************************************)
ObjectIdHexLen == 2

LowerChar(c) ==
  CASE c = "A" -> "a" [] c = "B" -> "b" [] c = "C" -> "c"
    [] c = "D" -> "d" [] c = "E" -> "e" [] c = "F" -> "f"
    [] OTHER -> c

IsObjectIdText(s) ==
  /\ Len(s) = ObjectIdHexLen
  /\ \A i \in 1..Len(s) : DigitVal(s[i]) < 16

ObjectId(s) == Oid([i \in 1..Len(s) |-> LowerChar(s[i])])

(***************************************************************************)
(* The document store.  A collection is the sequence of its documents in   *)
(* natural order; a document is a function from field names to values.     *)
(***************************************************************************)
HexChars == <<"0", "1", "2", "3", "4", "5", "6", "7", "8", "9">>

\* The identity the driver generates for the n-th document of a collection.
GenObjectId(n) == Oid(<<"f", HexChars[n + 1]>>)

\* BSON serialisation: the driver writes an undefined property as null.
RECURSIVE Bson(_)
Bson(v) ==
  IF v = Undefined THEN Null
  ELSE IF "arr" \in DOMAIN v
    THEN Arr([i \in 1..Len(v.arr) |-> Bson(v.arr[i])])
  ELSE IF "obj" \in DOMAIN v
    THEN Obj([f \in DOMAIN v.obj |-> Bson(v.obj[f])])
  ELSE v

BsonDoc(d) == [f \in DOMAIN d |-> Bson(d[f])]

\* JSON serialisation of a stored value (res.json).
RECURSIVE ToJSON(_)
ToJSON(v) ==
  IF "oid" \in DOMAIN v THEN Hex(v.oid)
  ELSE IF v = NaN THEN Null
  ELSE IF "arr" \in DOMAIN v
    THEN Arr([i \in 1..Len(v.arr) |-> ToJSON(v.arr[i])])
  ELSE IF "obj" \in DOMAIN v
    THEN Obj([f \in DOMAIN v.obj |-> ToJSON(v.obj[f])])
  ELSE v

DocToJSON(d) == Obj([f \in DOMAIN d |-> ToJSON(d[f])])

ListToJSON(docs) == Arr([i \in 1..Len(docs) |-> DocToJSON(docs[i])])

\* The documents the store holds when the process starts.
InitStore ==
  [Lessons |-> <<("_id" :> Oid(<<"a", "1">>)) @@ [topic |-> Str("math"), space |-> Num(5)],
                 ("_id" :> Oid(<<"b", "2">>)) @@ [topic |-> Str("music"), space |-> Num(5)]>>,
   Orders |-> <<("_id" :> Oid(<<"e", "0">>)) @@ [orderNo |-> Num(12), totalPrice |-> Num(40)]>>,
   lessons |-> <<("_id" :> Oid(<<"a", "1">>)) @@ [topic |-> Str("math")]>>]

\* Mutant: the patch replaces the document (replaceOne in place of $set).
MergePatch_replace(doc, patch) ==
  patch @@ ("_id" :> doc["_id"])

\* $set: the fields of the patch overwrite, the others stay.
MergePatch(doc, patch) ==
  [f \in DOMAIN doc \cup DOMAIN patch |->
     IF f \in DOMAIN patch THEN patch[f] ELSE doc[f]]

\* Indexes of the documents an equality filter {field: value} selects.
Matching(docs, filter) ==
  {i \in 1..Len(docs) : Get(docs[i], filter.field) = filter.value}

Min(S) == CHOOSE x \in S : \A y \in S : x <= y

StoreError == [ok |-> FALSE, err |-> "MongoNetworkError"]

\* collection.find({}).toArray()
find(store, coll) ==
  [store |-> store, result |-> [ok |-> TRUE, docs |-> store[coll]]]

\* collection.insertOne(doc)
insertOne(store, coll, doc) ==
  LET d == BsonDoc(doc)
      withId == IF "_id" \in DOMAIN d THEN d
                ELSE d @@ ("_id" :> GenObjectId(Len(store[coll])))
      dup == \E i \in 1..Len(store[coll]) : store[coll][i]["_id"] = withId["_id"]
  IN IF dup
       THEN [store |-> store,
             result |-> [ok |-> FALSE, err |-> "MongoServerError"]]
       ELSE [store |-> [store EXCEPT ![coll] = Append(@, withId)],
             result |-> [ok |-> TRUE, acknowledged |-> TRUE,
                         insertedId |-> withId["_id"]]]

\* Mutant: updateOne with upsert, which inserts when nothing matches.
updateOne_upsert(store, coll, filter, patch) ==
  LET hits == Matching(store[coll], filter)
      i == Min(hits)
      old == store[coll][i]
      new == MergePatch(old, BsonDoc(patch))
  IN IF hits = {}
       THEN [store |-> [store EXCEPT ![coll] =
                          Append(@, BsonDoc(patch) @@ (filter.field :> filter.value))],
             result |-> [ok |-> TRUE, matchedCount |-> 0, modifiedCount |-> 0]]
     ELSE IF new["_id"] # old["_id"]
       THEN [store |-> store,
             result |-> [ok |-> FALSE, err |-> "MongoServerError"]]
     ELSE [store |-> [store EXCEPT ![coll][i] = new],
           result |-> [ok |-> TRUE, matchedCount |-> 1,
                       modifiedCount |-> IF new = old THEN 0 ELSE 1]]

\* Mutant: a read-modify-write on a stale copy of the document (the copy
\* read at startup), which loses the concurrent update of another field.
updateOne_stale(store, coll, filter, patch) ==
  LET hits == Matching(store[coll], filter)
      i == Min(hits)
      old == store[coll][i]
      stale == IF i <= Len(InitStore[coll]) THEN InitStore[coll][i] ELSE old
      new == MergePatch(stale, BsonDoc(patch))
  IN IF hits = {}
       THEN [store |-> store,
             result |-> [ok |-> TRUE, matchedCount |-> 0, modifiedCount |-> 0]]
     ELSE IF new["_id"] # old["_id"]
       THEN [store |-> store,
             result |-> [ok |-> FALSE, err |-> "MongoServerError"]]
     ELSE [store |-> [store EXCEPT ![coll][i] = new],
           result |-> [ok |-> TRUE, matchedCount |-> 1,
                       modifiedCount |-> IF new = old THEN 0 ELSE 1]]

\* collection.updateOne(filter, {$set: patch}): the first matching document
\* is patched in one atomic step; _id is immutable.
updateOne(store, coll, filter, patch) ==
  LET hits == Matching(store[coll], filter)
      i == Min(hits)
      old == store[coll][i]
      new == MergePatch(old, BsonDoc(patch))
  IN IF hits = {}
       THEN [store |-> store,
             result |-> [ok |-> TRUE, matchedCount |-> 0, modifiedCount |-> 0]]
     ELSE IF new["_id"] # old["_id"]
       THEN [store |-> store,
             result |-> [ok |-> FALSE, err |-> "MongoServerError"]]
     ELSE [store |-> [store EXCEPT ![coll][i] = new],
           result |-> [ok |-> TRUE, matchedCount |-> 1,
                       modifiedCount |-> IF new = old THEN 0 ELSE 1]]

\* The store applies one operation.
Apply(store, op) ==
  CASE op.type = "find" -> find(store, op.coll)
    [] op.type = "insertOne" -> insertOne(store, op.coll, op.doc)
    [] op.type = "updateOne" -> updateOne(store, op.coll, op.filter, op.patch)

(***************************************************************************)
(* The request pipeline.  A request is [route, seg, body]: seg is the path *)
(* parameter (a sequence of characters), body the parsed JSON body.        *)
(* A response is [status, body, err]; err is the error that was logged.    *)
(***************************************************************************)
GetLessons == "GET /lessons"
GetOrders == "GET /orders"
PostOrder == "POST /order"
PutOrder == "PUT /order/:orderNo"
PutLessons == "PUT /lessons/:id"
PutPrograms == "PUT /programs/:id"

\* The routes each deployment registers.
Routes(v) ==
  CASE v = "server" -> {GetLessons, GetOrders, PostOrder, PutOrder, PutLessons}
    [] v = "part" -> {GetLessons, GetOrders, PostOrder, PutOrder, PutPrograms}
    [] v = "index" -> {GetLessons}

ErrorBody(text) == Obj([error |-> Str(text)])

Respond(status, body, err) ==
  [k |-> "respond", resp |-> [status |-> status, body |-> body, err |-> err]]

Await(op) == [k |-> "await", op |-> op]

\* app.use((err, req, res, next) => ...): the terminal error responder.
GlobalErrorHandler(v, err) ==
  Respond(500,
          ErrorBody(IF v = "index" THEN "An error occurred"
                    ELSE "An internal server error occurred"),
          err)

\* The name index.js and the other deployments give the lessons collection.
LessonsColl(v) == IF v = "index" THEN "lessons" ELSE "Lessons"

\* Mutant: the throw on the unset reference is not caught and passed on.
getLessons_nocatch(v, db) ==
  Await([type |-> "find", coll |-> LessonsColl(v)])

\* app.get("/lessons"), up to the await.
getLessons(v, db) ==
  IF db = "unset" THEN GlobalErrorHandler(v, "TypeError")
  ELSE Await([type |-> "find", coll |-> LessonsColl(v)])

\* app.get("/orders"), up to the await.
getOrders(v, db) ==
  IF db = "unset" THEN GlobalErrorHandler(v, "TypeError")
  ELSE Await([type |-> "find", coll |-> "Orders"])

\* The catch block of app.post('/order') in server.js.
FailedToCreateOrder(err) ==
  Respond(500, ErrorBody("Failed to create order"), err)

\* orderData.lessons.map(lesson => ({lessonID, spaces})) of server.js.
MapLessons(entries) ==
  [i \in 1..Len(entries) |->
     Obj([lessonID |-> Get(entries[i].obj, "lessonID"),
          spaces |-> Get(entries[i].obj, "spaces")])]

\* app.post('/order'), up to the await.
postOrder(v, db, body) ==
  IF v = "server"
    THEN IF "arr" \notin DOMAIN Get(body, "lessons")
           THEN FailedToCreateOrder("TypeError")
         ELSE IF db = "unset" THEN FailedToCreateOrder("TypeError")
         ELSE Await([type |-> "insertOne", coll |-> "Orders",
                     doc |-> [name |-> Get(body, "name"),
                              phone |-> Get(body, "phone"),
                              lessons |-> Arr(MapLessons(body.lessons.arr)),
                              totalPrice |-> Get(body, "totalPrice")]])
    ELSE IF db = "unset" THEN GlobalErrorHandler(v, "TypeError")
         ELSE Await([type |-> "insertOne", coll |-> "Orders", doc |-> body])

\* app.put('/order/:orderNo'), up to the await.
putOrder(v, db, seg, body) ==
  IF db = "unset" THEN GlobalErrorHandler(v, "TypeError")
  ELSE Await([type |-> "updateOne", coll |-> "Orders",
              filter |-> [field |-> "orderNo", value |-> parseInt(seg)],
              patch |-> body])

\* app.put('/lessons/:id') and app.put('/programs/:id'), up to the await.
putLessons(v, db, seg, body) ==
  IF ~IsObjectIdText(seg) THEN GlobalErrorHandler(v, "BSONError")
  ELSE IF db = "unset" THEN GlobalErrorHandler(v, "TypeError")
  ELSE Await([type |-> "updateOne", coll |-> "Lessons",
              filter |-> [field |-> "_id", value |-> ObjectId(seg)],
              patch |-> body])

putPrograms(v, db, seg, body) ==
  IF db = "unset" THEN GlobalErrorHandler(v, "TypeError")
  ELSE IF ~IsObjectIdText(seg) THEN GlobalErrorHandler(v, "BSONError")
  ELSE Await([type |-> "updateOne", coll |-> "Lessons",
              filter |-> [field |-> "_id", value |-> ObjectId(seg)],
              patch |-> body])

\* express.json(), then the matched route's handler up to its await.
Dispatch(v, db, req) ==
  IF req.body = Malformed THEN GlobalErrorHandler(v, "SyntaxError")
  ELSE CASE req.route = GetLessons -> getLessons(v, db)
         [] req.route = GetOrders -> getOrders(v, db)
         [] req.route = PostOrder -> postOrder(v, db, req.body)
         [] req.route = PutOrder -> putOrder(v, db, req.seg, req.body)
         [] req.route = PutLessons -> putLessons(v, db, req.seg, req.body)
         [] req.route = PutPrograms -> putPrograms(v, db, req.seg, req.body)

NotFoundText(route) ==
  CASE route = PutOrder -> "Order not found"
    [] route = PutLessons -> "Lesson not found"
    [] route = PutPrograms -> "Program not found"

\* A list handler after its await.
listResume(v, result) ==
  IF ~result.ok THEN GlobalErrorHandler(v, result.err).resp
  ELSE [status |-> 200, body |-> ListToJSON(result.docs), err |-> "none"]

\* app.post('/order') after its await.
postOrderResume(v, result) ==
  IF v = "server"
    THEN IF ~result.ok THEN FailedToCreateOrder(result.err).resp
         ELSE [status |-> 200,
               body |-> Obj([insertedId |-> ToJSON(result.insertedId)]),
               err |-> "none"]
    ELSE IF ~result.ok THEN GlobalErrorHandler(v, result.err).resp
         ELSE [status |-> 200,
               body |-> Obj([acknowledged |-> TRUE,
                             insertedId |-> ToJSON(result.insertedId)]),
               err |-> "none"]

\* An update handler after its await.
updateResume(v, route, result) ==
  IF ~result.ok THEN GlobalErrorHandler(v, result.err).resp
  ELSE IF result.matchedCount = 0
    THEN [status |-> 404, body |-> ErrorBody(NotFoundText(route)),
          err |-> "none"]
  ELSE [status |-> 200,
        body |-> Obj([matchedCount |-> result.matchedCount,
                      modifiedCount |-> result.modifiedCount]),
        err |-> "none"]

\* The handler of req after its await, given the store call's result.
Continue(v, req, result) ==
  CASE req.route \in {GetLessons, GetOrders} -> listResume(v, result)
    [] req.route = PostOrder -> postOrderResume(v, result)
    [] req.route \in {PutOrder, PutLessons, PutPrograms} ->
         updateResume(v, req.route, result)

(***************************************************************************)
(* Inputs: the path segments and bodies the requests of a run carry.       *)
(***************************************************************************)
NoBody == [f \in {} |-> Null]
NoSeg == <<>>

LessonIdSegs ==
  {<<"a", "1">>, <<"c", "3">>, <<"g", "1">>, <<"a">>}

LessonPatches ==
  {[space |-> Num(4)], [topic |-> Str("art")], ("_id" :> Str("a1")), Malformed}

OrderNoSegs ==
  {<<"1", "2">>, <<"1", "2", "a", "b", "c">>, <<"a", "b", "c">>, <<"7">>}

OrderPatches == {[totalPrice |-> Num(50)]}

LessonRef(id, field, n) == Obj(("lessonID" :> Str(id)) @@ (field :> Num(n)))

OrderBodies ==
  {[name |-> Str("A"), phone |-> Str("123"), totalPrice |-> Num(40),
    lessons |-> Arr(<<LessonRef("L1", "availability", 2)>>)],
   [name |-> Str("A"), phone |-> Str("123"), totalPrice |-> Num(40),
    lessons |-> Arr(<<LessonRef("L1", "spaces", 2), LessonRef("L2", "spaces", 1)>>)],
   [name |-> Str("A"), phone |-> Str("123"), totalPrice |-> Num(40)],
   Malformed}

Requests ==
  {[route |-> r, seg |-> NoSeg, body |-> NoBody] : r \in {GetLessons, GetOrders}}
  \cup {[route |-> PostOrder, seg |-> NoSeg, body |-> b] : b \in OrderBodies}
  \cup {[route |-> PutOrder, seg |-> s, body |-> b] :
          s \in OrderNoSegs, b \in OrderPatches}
  \cup {[route |-> r, seg |-> s, body |-> b] :
          r \in {PutLessons, PutPrograms}, s \in LessonIdSegs, b \in LessonPatches}

(***************************************************************************)
(* The process.                                                            *)
(***************************************************************************)
VARIABLES
  variant,    \* the deployment that runs
  proc,       \* "running" or "exited"
  exitCode,   \* the exit status; -1 while running
  conn,       \* client: "pending", "open", "failed" or "closed"
  db1,        \* the shared database reference: "unset" or "set"
  closing,    \* the SIGINT handler is awaiting client.close()
  store,      \* the collections
  inflight,   \* request id -> the suspended handler
  nextReq,    \* the id of the next request
  lastResp    \* the response sent last, with its request's id and route

vars == <<variant, proc, exitCode, conn, db1, closing, store, inflight,
          nextReq, lastResp>>

Idle == [pc |-> "idle"]
NoResp == [none |-> TRUE]

Init ==
  /\ variant \in Variants
  /\ proc = "running"
  /\ exitCode = -1
  /\ conn = "pending"
  /\ db1 = IF variant = "index" THEN "set" ELSE "unset"
  /\ closing = FALSE
  /\ store = InitStore
  /\ inflight = [r \in 1..MaxReq |-> Idle]
  /\ nextReq = 1
  /\ lastResp = NoResp

\* await client.connect() resolves; connectDB sets the database reference.
ConnectResolve ==
  /\ proc = "running" /\ conn = "pending"
  /\ conn' = "open"
  /\ db1' = "set"
  /\ UNCHANGED <<variant, proc, exitCode, closing, store, inflight, nextReq, lastResp>>

\* await client.connect() rejects; the catch block exits the process.
ConnectReject ==
  /\ proc = "running" /\ conn = "pending" /\ variant # "index"
  /\ conn' = "failed"
  /\ proc' = "exited"
  /\ exitCode' = 1
  /\ UNCHANGED <<variant, db1, closing, store, inflight, nextReq, lastResp>>

\* index.js does not await client.connect(): its rejection is unhandled,
\* which ends the process or only warns, depending on the runtime.
ConnectRejectUnhandled ==
  /\ proc = "running" /\ conn = "pending" /\ variant = "index"
  /\ conn' = "failed"
  /\ \/ proc' = "exited" /\ exitCode' = 1
     \/ UNCHANGED <<proc, exitCode>>
  /\ UNCHANGED <<variant, db1, closing, store, inflight, nextReq, lastResp>>

\* process.on("SIGINT"): the handler calls client.close() and awaits it.
Sigint ==
  /\ proc = "running" /\ variant # "index" /\ ~closing
  /\ closing' = TRUE
  /\ UNCHANGED <<variant, proc, exitCode, conn, db1, store, inflight, nextReq, lastResp>>

\* client.close() resolves; the handler calls process.exit(0).
CloseDone ==
  /\ proc = "running" /\ closing
  /\ conn' = "closed"
  /\ proc' = "exited"
  /\ exitCode' = 0
  /\ UNCHANGED <<variant, db1, closing, store, inflight, nextReq, lastResp>>

\* index.js registers no SIGINT handler: the signal ends the process.
SigintDefault ==
  /\ proc = "running" /\ variant = "index"
  /\ proc' = "exited"
  /\ exitCode' = 130
  /\ UNCHANGED <<variant, conn, db1, closing, store, inflight, nextReq, lastResp>>

\* A request arrives and runs through the pipeline up to the first await.
Receive(req) ==
  /\ proc = "running" /\ nextReq <= MaxReq
  /\ req.route \in Routes(variant)
  /\ nextReq' = nextReq + 1
  /\ LET d == Dispatch(variant, db1, req)
     IN IF d.k = "respond"
          THEN /\ lastResp' = [rid |-> nextReq, route |-> req.route, resp |-> d.resp]
               /\ UNCHANGED inflight
          ELSE /\ inflight' = [inflight EXCEPT ![nextReq] =
                                 [pc |-> "awaiting", req |-> req, op |-> d.op]]
               /\ UNCHANGED lastResp
  /\ UNCHANGED <<variant, proc, exitCode, conn, db1, closing, store>>

\* The store executes the operation of request r.
StoreApply(r) ==
  /\ proc = "running" /\ conn = "open"
  /\ inflight[r].pc = "awaiting"
  /\ LET a == Apply(store, inflight[r].op)
     IN /\ store' = a.store
        /\ inflight' = [inflight EXCEPT ![r] =
                          [pc |-> "resolved", req |-> inflight[r].req,
                           result |-> a.result]]
  /\ UNCHANGED <<variant, proc, exitCode, conn, db1, closing, nextReq, lastResp>>

\* The store call of request r rejects (no connection, network failure).
StoreFail(r) ==
  /\ proc = "running"
  /\ inflight[r].pc = "awaiting"
  /\ inflight' = [inflight EXCEPT ![r] =
                    [pc |-> "resolved", req |-> inflight[r].req,
                     result |-> StoreError]]
  /\ UNCHANGED <<variant, proc, exitCode, conn, db1, closing, store, nextReq, lastResp>>

\* The handler of request r resumes after its await and responds.
Resume(r) ==
  /\ proc = "running"
  /\ inflight[r].pc = "resolved"
  /\ lastResp' = [rid |-> r, route |-> inflight[r].req.route,
                  resp |-> Continue(variant, inflight[r].req, inflight[r].result)]
  /\ inflight' = [inflight EXCEPT ![r] = Idle]
  /\ UNCHANGED <<variant, proc, exitCode, conn, db1, closing, store, nextReq>>

Next ==
  \/ ConnectResolve
  \/ ConnectReject
  \/ ConnectRejectUnhandled
  \/ Sigint
  \/ CloseDone
  \/ SigintDefault
  \/ \E req \in Requests : Receive(req)
  \/ \E r \in 1..MaxReq : StoreApply(r)
  \/ \E r \in 1..MaxReq : StoreFail(r)
  \/ \E r \in 1..MaxReq : Resume(r)

Spec == Init /\ [][Next]_vars

(***************************************************************************)
(* Steps of a request, as seen in a transition.                            *)
(***************************************************************************)
\* The store executed the operation of request r in this step.
Applied(r) ==
  /\ inflight[r].pc = "awaiting"
  /\ inflight'[r].pc = "resolved"
  /\ inflight'[r].result # StoreError

\* The handler of request r sent its response in this step.
Answered(r) ==
  /\ inflight[r].pc = "resolved"
  /\ inflight'[r].pc = "idle"

\* A request was received in this step.
Received == nextReq' = nextReq + 1

IsUpdateRoute(rt) == rt \in {PutOrder, PutLessons, PutPrograms}
IsLessonUpdate(rt) == rt \in {PutLessons, PutPrograms}

(***************************************************************************)
(* C1.  Lesson update followed by a list read.                             *)
(***************************************************************************)
\* Document i of the list shows the patch; nothing else changed.
PatchShown(before, after, i, patch) ==
  /\ Len(after) = Len(before)
  /\ \A f \in DOMAIN patch : Get(after[i], f) = patch[f]
  /\ \A f \in DOMAIN before[i] \ DOMAIN patch : Get(after[i], f) = before[i][f]
  /\ \A j \in 1..Len(before) : j # i => after[j] = before[j]

\* GET /lessons reads the collection as it is and returns it as JSON.
ListReadShowsStore ==
  \A r \in 1..MaxReq :
    /\ (Applied(r) /\ inflight[r].req.route = GetLessons)
         => inflight'[r].result.docs = store[LessonsColl(variant)]
    /\ (Answered(r) /\ inflight[r].req.route = GetLessons /\ inflight[r].result.ok)
         => /\ lastResp'.resp.status = 200
            /\ lastResp'.resp.body = ListToJSON(inflight[r].result.docs)

\* r updates the lesson that is document i, addressed by its identity text.
UpdatesLesson(r, i) ==
  /\ Applied(r)
  /\ IsLessonUpdate(inflight[r].req.route)
  /\ store.Lessons[i]["_id"] = Oid(inflight[r].req.seg)

C2_NoMatchNotFound ==
  [][\A r \in 1..MaxReq :
       /\ (/\ Applied(r)
           /\ IsUpdateRoute(inflight[r].req.route)
           /\ \A i \in 1..Len(store[inflight[r].op.coll]) :
                Get(store[inflight[r].op.coll][i], inflight[r].op.filter.field)
                  # inflight[r].op.filter.value)
            => /\ store' = store
               /\ inflight'[r].result.ok
               /\ inflight'[r].result.matchedCount = 0
       /\ (/\ Answered(r)
           /\ IsUpdateRoute(inflight[r].req.route)
           /\ inflight[r].result.ok
           /\ inflight[r].result.matchedCount = 0)
            => /\ lastResp'.rid = r
               /\ lastResp'.resp.status = 404
               /\ store' = store
    ]_vars

\* A no-match update has been answered.
C2_Witness ==
  /\ lastResp # NoResp
  /\ IsUpdateRoute(lastResp.route)
  /\ lastResp.resp.status = 404
  /\ store = InitStore

(***************************************************************************)
(* C3.  Order create round trip.                                           *)
(***************************************************************************)
\* The requested quantity of a lesson reference, under either field name.
Quantity(e) ==
  IF "requestedQuantity" \in DOMAIN e THEN e["requestedQuantity"]
  ELSE IF "spaces" \in DOMAIN e /\ e["spaces"] # Null THEN e["spaces"]
  ELSE Get(e, "availability")

\* The stored order carries the submitted lesson ids, quantities and price.
OrderCarries(doc, body) ==
  /\ "arr" \in DOMAIN Get(doc, "lessons")
  /\ Len(doc.lessons.arr) = Len(body.lessons.arr)
  /\ \A i \in 1..Len(body.lessons.arr) :
       /\ Get(doc.lessons.arr[i].obj, "lessonID")
            = body.lessons.arr[i].obj["lessonID"]
       /\ Quantity(doc.lessons.arr[i].obj) = Quantity(body.lessons.arr[i].obj)
  /\ Get(doc, "totalPrice") = body.totalPrice

\* C3: a created order is answered with a generated identity, and the
\* Orders list then holds exactly one document with that identity, with the
\* submitted lesson ids and quantities in order and the submitted totalPrice.
C3_OrderRoundTrip ==
  \A r \in 1..MaxReq :
    (/\ inflight[r].pc = "resolved"
     /\ inflight[r].req.route = PostOrder
     /\ "lessons" \in DOMAIN inflight[r].req.body
     /\ inflight[r].result.ok)
      => LET docs == store.Orders
             hits == {i \in 1..Len(docs) :
                        docs[i]["_id"] = inflight[r].result.insertedId}
         IN /\ "insertedId" \in
                 DOMAIN Continue(variant, inflight[r].req, inflight[r].result).body.obj
            /\ Cardinality(hits) = 1
            /\ \A i \in hits : OrderCarries(docs[i], inflight[r].req.body)

(***************************************************************************)
(* C4.  Order create without a lessons field.                              *)
(***************************************************************************)
\* C4: a POST /order whose body has no lessons field inserts no document
\* and is answered with a failure.
C4_NoLessonsRejected ==
  [][\A r \in 1..MaxReq :
       (/\ inflight[r].pc \in {"awaiting", "resolved"}
        /\ inflight[r].req.route = PostOrder
        /\ "lessons" \notin DOMAIN inflight[r].req.body)
         => /\ store'.Orders = store.Orders
            /\ Answered(r) => lastResp'.resp.status >= 400
    ]_vars

(***************************************************************************)
(* C5.  Order update with a path segment that is not a decimal integer.    *)
(***************************************************************************)
IsDecimalInteger(seg) ==
  /\ seg # <<>>
  /\ \A i \in 1..Len(seg) : DigitVal(seg[i]) < 10

\* C5: a PUT /order/:orderNo whose segment is not a decimal integer matches
\* no Order document, alters none, and is answered 404.
C5_NonNumericNotFound ==
  [][\A r \in 1..MaxReq :
       (/\ inflight[r].pc \in {"awaiting", "resolved"}
        /\ inflight[r].req.route = PutOrder
        /\ ~IsDecimalInteger(inflight[r].req.seg))
         => /\ Applied(r)
                 => /\ store' = store
                    /\ inflight'[r].result.ok
                    /\ inflight'[r].result.matchedCount = 0
            /\ (Answered(r) /\ inflight[r].result # StoreError)
                 => lastResp'.resp.status = 404
    ]_vars

(***************************************************************************)
(* C6.  A failed connection attempt at startup.                            *)
(***************************************************************************)
\* C6: when the connection attempt made at startup fails, no request has
\* been answered between process start and the failure.
C6_NoAnswerWithoutConnection ==
  conn = "failed" => lastResp = NoResp

(***************************************************************************)
(* C7.  Requests that arrive before the database reference is set.         *)
(***************************************************************************)
\* C7: a request received while the database reference is unset is answered
\* at once with a 500 error response; it is not suspended on a store call
\* and gets no success response.
C7_UnsetDbAnswered500 ==
  [][(Received /\ db1 = "unset")
       => /\ inflight' = inflight
          /\ lastResp' # NoResp
          /\ lastResp'.rid = nextReq
          /\ lastResp'.resp.status = 500
          /\ lastResp'.resp.err # "none"
    ]_vars

\* A handler has met the unset database reference and answered 500.
C7_Witness ==
  /\ db1 = "unset"
  /\ lastResp # NoResp
  /\ lastResp.resp.status = 500
  /\ lastResp.resp.err = "TypeError"
  /\ lastResp.route = GetLessons

(***************************************************************************)
(* C8.  Errors other than a no-match update.                               *)
(***************************************************************************)
TerminalBodies ==
  {ErrorBody("An internal server error occurred"), ErrorBody("An error occurred")}

\* C8: every response to a request whose handling raised an error has
\* status 500 and the fixed body of the terminal error responder.
C8_ErrorsReachTerminalResponder ==
  (lastResp # NoResp /\ lastResp.resp.err # "none")
    => /\ lastResp.resp.status = 500
       /\ lastResp.resp.body \in TerminalBodies

(***************************************************************************)
(* C9.  Concurrent requests.                                               *)
(***************************************************************************)
\* The request run alone, start to finish, against store st with the
\* database reference set: the store it leaves and the response it gets.
SeqStep(st, req) ==
  LET d == Dispatch(variant, "set", req)
  IN IF d.k = "respond" THEN [store |-> st, resp |-> d.resp]
     ELSE LET a == Apply(st, d.op)
          IN [store |-> a.store, resp |-> Continue(variant, req, a.result)]

\* Two lesson updates that have both been executed, on the same document
\* and on disjoint fields.
DisjointPair(r1, r2) ==
  /\ r1 # r2
  /\ \A r \in {r1, r2} :
       /\ inflight[r].pc = "resolved"
       /\ IsLessonUpdate(inflight[r].req.route)
       /\ inflight[r].result.ok
       /\ inflight[r].result.matchedCount = 1
  /\ ObjectId(inflight[r1].req.seg) = ObjectId(inflight[r2].req.seg)
  /\ DOMAIN inflight[r1].req.body \cap DOMAIN inflight[r2].req.body = {}

BothTakeEffect ==
  \A r1, r2 \in 1..MaxReq :
    DisjointPair(r1, r2)
      => \E i \in 1..Len(store.Lessons) :
           /\ store.Lessons[i]["_id"] = ObjectId(inflight[r1].req.seg)
           /\ \A r \in {r1, r2} : \A f \in DOMAIN inflight[r].req.body :
                Get(store.Lessons[i], f) = inflight[r].req.body[f]

\* C9: every request takes effect in one step, as if it ran alone against
\* the store of that moment, and is answered with the response of that
\* sequential run, so the store and the responses are those of the
\* requests run one after the other in the order of their store steps; two
\* concurrent updates of one document on disjoint fields both take effect;
\* only connectDB writes the database reference.
C9_Serializable ==
  [][/\ \A r \in 1..MaxReq :
          /\ Applied(r)
               => /\ store' = SeqStep(store, inflight[r].req).store
                  /\ Continue(variant, inflight[r].req, inflight'[r].result)
                       = SeqStep(store, inflight[r].req).resp
          /\ Answered(r)
               => /\ lastResp'.rid = r
                  /\ lastResp'.resp
                       = Continue(variant, inflight[r].req, inflight[r].result)
                  /\ store' = store
     /\ BothTakeEffect'
     /\ db1' # db1
          => /\ conn = "pending" /\ conn' = "open"
             /\ UNCHANGED <<store, inflight, nextReq, lastResp>>
    ]_vars

\* Two concurrent updates of lesson a1 on disjoint fields have been executed.
C9_Witness ==
  \E r1, r2 \in 1..MaxReq :
    /\ DisjointPair(r1, r2)
    /\ Get(store.Lessons[1], "space") = Num(4)
    /\ Get(store.Lessons[1], "topic") = Str("art")

(***************************************************************************)
(* C10.  Shutdown on SIGINT.                                               *)
(***************************************************************************)
\* C10: once the SIGINT handler has run, the process exits only with the
\* connection closed and with status 0.
C10_SigintClosesThenExitsZero ==
  (closing /\ proc = "exited") => (conn = "closed" /\ exitCode = 0)

====
